---------------------------- MODULE Spec2Model ----------------------------
(***************************************************************************)
(* A model of the core of the stract search engine:                        *)
(*   - the sharded / replicated RPC fan-out                                *)
(*       (crates/core/src/distributed/sonic/replication.rs),               *)
(*   - the Bloom shard map and the derived page centrality builder         *)
(*       (crates/core/src/webgraph/centrality/derived_harmonic.rs),        *)
(*   - the request loop of the search server                               *)
(*       (core/src/entrypoint/search_server.rs).                           *)
(* Each subsystem has its own variables and its own specification; a       *)
(* specification leaves the variables of the other subsystems at rest.     *)
(***************************************************************************)
EXTENDS Integers, Sequences, FiniteSets, TLC

VARIABLES
    \* ---- fan-out (replication.rs) ----
    shards,      \* ShardedClient.shards: Seq of [id, replicas: Seq of addresses]
    fpc,         \* position of ShardedClient::send: "idle" | "joining" | "returned"
    call,        \* the selectors the running send was called with
    selShards,   \* shard_selector.select(&self.shards): Seq of positions in shards
    selReps,     \* per selected shard: replica_selector.select(&clients), positions
    futures,     \* per selected shard, per selected replica: the RemoteClient::send future
    shardFut,    \* per selected shard: the send_single future
    result,      \* what ShardedClient::send returned
    outOfOrder,  \* history: some RPC completed while an earlier-dispatched one was pending
    prev,        \* history: what an earlier send on this client did for one of its shards
    wire         \* history: per replica address, what the running send did towards it:
                 \* [conn: calls of conn(), calls: calls of send_with_timeout]

    \* ---- one selector applied to one slice (replication.rs 65-169) ----
VARIABLES
    selShardsIn,   \* the &[Shard] given to a shard selector
    selClientsIn,  \* the &[RemoteClient] given to a replica selector
    selOp,         \* the selector applied: "none" before any
    selArg,        \* the id of a SpecificShardSelector
    selOut         \* the positions the selector returned

    \* ---- one RemoteClient::send (replication.rs 46-62) ----
VARIABLES
    cpc,           \* "idle" | "connecting" | "sleeping" | "connected" | "done"
    retry,         \* the retry iterator: [current, left]
    attempts,      \* history: the outcome of every connect attempt, in order
    delays,        \* history: every backoff delay slept, in order
    cres           \* what RemoteClient::send returned

    \* ---- one BloomMap filled in parallel (derived_harmonic.rs 31-63) ----
VARIABLES
    bmItems,       \* the items to insert, as a bag: item -> number of inserts
    bmPending,     \* the inserts no worker has picked up yet, as a bag
    bmWorker,      \* per worker: [st: "idle" | "waiting" | "locked", h]
    bmMutex,       \* per partition: the worker holding its mutex, 0 when free
    bmMap,         \* BloomMap.map: the partitions, each a Bloom filter
    bmFinal,       \* what BloomMap::finalize returned, or the panic that ended it
    bmPoisoned     \* the partitions whose mutex is poisoned

    \* ---- one DerivedCentrality::build (derived_harmonic.rs 75-146) ----
VARIABLES
    graph,         \* page_graph: [hostOf: page -> host, edges: set of <<from, to>>]
    harm,          \* host_harmonic: host -> value in units of 1 / HarmonicSteps
    bpc,           \* "start" | "pass1" | "pass2" | "pass3" | "done" | "failed" | "panicked"
    outExists,     \* the output path exists on disk
    stagingExists, \* output/non_normalized exists on disk
    filter,        \* has_outgoing after finalize
    visited,       \* the nodes pass 2 has gone through
    staging,       \* the non_normalized store: id -> page_score
    norms,         \* the norms map: host -> largest votes
    final,         \* the store at the output path: id -> normalized value
    bres,          \* what build returned, or the panic that ended it
    votesOf,       \* history: the votes pass 2 computed for each page it wrote
    removeTried    \* history: this call reached remove_dir_all on the staging directory

    \* ---- the request loop of one search server (search_server.rs 69-104) ----
VARIABLES
    spc,           \* "accepting" | "handling" | "responding" | "stopped"
    sreq,          \* the request being handled: [n, kind]
    sresp,         \* the response handed to req.respond: [tag, payload]
    accepted,      \* history: the number of requests accepted so far
    acceptFails,   \* history: the number of failed accepts so far
    slog           \* history: one entry per call of req.respond

fanVars == <<shards, fpc, call, selShards, selReps, futures, shardFut, result, outOfOrder, prev,
             wire>>

selVars == <<selShardsIn, selClientsIn, selOp, selArg, selOut>>

connVars == <<cpc, retry, attempts, delays, cres>>

bloomVars == <<bmItems, bmPending, bmWorker, bmMutex, bmMap, bmFinal, bmPoisoned>>

buildVars == <<graph, harm, bpc, outExists, stagingExists, filter, visited, staging, norms,
               final, bres, votesOf, removeTried>>

srvVars == <<spc, sreq, sresp, accepted, acceptFails, slog>>

vars == <<fanVars, selVars, connVars, bloomVars, buildVars, srvVars>>

\* What a step of one subsystem leaves alone.
fanRest == <<selVars, connVars, bloomVars, buildVars, srvVars>>

selRest == <<fanVars, connVars, bloomVars, buildVars, srvVars>>

connRest == <<fanVars, selVars, bloomVars, buildVars, srvVars>>

bloomRest == <<fanVars, selVars, connVars, buildVars, srvVars>>

buildRest == <<fanVars, selVars, connVars, bloomVars, srvVars>>

srvRest == <<fanVars, selVars, connVars, bloomVars, buildVars>>

-----------------------------------------------------------------------------
(* Bounds of the model *)

MaxShards == 2
MaxReplicas == 2
\* The most RemoteClients (searcher processes) in one cluster view.
MaxClients == 4
\* The same, where two consecutive sends on one view are compared.
MaxIsoClients == 3
\* The longest slice given to a selector on its own.
MaxLen == 3
\* The largest item (NodeID::as_u64) inserted into a BloomMap on its own, the
\* most inserts, and the worker threads making them.
MaxItem == 9
MaxInserts == 3
NumWorkers == 2
\* The length of the bit array of a Bloom filter.
BloomBits == 3
\* The pages and page-level edges of a page graph, and the resolution of the
\* host harmonic values: k / HarmonicSteps for k in 0..HarmonicSteps.
MaxPages == 3
MaxEdges == 2
HarmonicSteps == 2
\* The requests a search server accepts, and the accepts that fail.
MaxRequests == 3
MaxAcceptFails == 2

-----------------------------------------------------------------------------
(* Generic helpers *)

Range(s) == {s[i] : i \in DOMAIN s}

\* Mutation of the norms update: *norm = votes for *norm = (*norm).max(votes).
Max2Overwrite(a, b) == b

Max2(a, b) == IF a >= b THEN a ELSE b

Min2(a, b) == IF a <= b THEN a ELSE b

\* The value of a future / a Result<T>.
Pending == [st |-> "pending"]

OkR(v) == [st |-> "ok", val |-> v]

ErrR(k) == [st |-> "err", kind |-> k]

\* A panic that unwound the function, and the expression that raised it.
Panicked(at) == [st |-> "panic", at |-> at]

\* The error kinds of one RPC: connect retries exhausted, per-call deadline, bad frame.
RpcErrors == {"Unreachable", "CallTimeout", "Deserialize"}

-----------------------------------------------------------------------------
(* Selectors (replication.rs 65-169).  A selector returns references into   *)
(* the slice it was given; a reference is modelled by a position.           *)

\* The draws gen_index makes in choose_multiple(rng, 1) over n elements: for
\* the i-th element after the reservoir it draws k uniformly in 0..i.
DrawsFor(n) == {d \in [1..(IF n > 1 THEN n - 1 ELSE 0) -> 0..(IF n > 1 THEN n - 1 ELSE 0)] :
                  \A i \in DOMAIN d : d[i] <= i}

\* rand::seq::IteratorRandom::choose_multiple(rng, amount) by reservoir
\* sampling: the reservoir takes the first `amount` elements; element number
\* amount + i replaces slot k = draw i when k < amount.
RECURSIVE Reservoir(_, _, _, _, _)
Reservoir(res, n, amount, d, i) ==
    IF amount + i > n THEN res
    ELSE Reservoir(IF d[i] < amount THEN [res EXCEPT ![d[i] + 1] = amount + i] ELSE res,
                   n, amount, d, i + 1)

\* Mutation of choose_multiple: the reservoir is indexed without checking that
\* the iterator had `amount` elements.
ChooseMultipleNoShortCheck(n, amount, d) == Reservoir([i \in 1..amount |-> i], n, amount, d, 1)

ChooseMultiple(n, amount, d) ==
    IF n < amount THEN [i \in 1..n |-> i]
    ELSE Reservoir([i \in 1..amount |-> i], n, amount, d, 1)

\* RandomReplicaSelector::select
RandomReplicaSelect(replicas, d) == ChooseMultiple(Len(replicas), 1, d)

\* Mutation of AllReplicaSelector::select: collects only the first replica.
AllReplicaSelectFirstOnly(replicas) == [i \in 1..Min2(1, Len(replicas)) |-> i]

\* AllReplicaSelector::select
AllReplicaSelect(replicas) == [i \in 1..Len(replicas) |-> i]

\* AllShardsSelector::select
AllShardsSelect(shs) == [i \in 1..Len(shs) |-> i]

\* RandomShardSelector::select
RandomShardSelect(shs, d) == ChooseMultiple(Len(shs), 1, d)

\* Iterator::find: the first position whose shard id equals `id`, as an Option.
FindFirst(shs, id) ==
    LET hits == {i \in 1..Len(shs) : shs[i].id = id}
    IN IF hits = {} THEN <<>> ELSE <<CHOOSE i \in hits : \A j \in hits : i <= j>>

\* Mutation of SpecificShardSelector::select: filter(..) for find(..).
SpecificShardSelectFilter(shs, id) ==
    LET hits == {i \in 1..Len(shs) : shs[i].id = id}
        RECURSIVE Asc(_, _)
        Asc(i, acc) == IF i > Len(shs) THEN acc
                       ELSE Asc(i + 1, IF i \in hits THEN Append(acc, i) ELSE acc)
    IN Asc(1, <<>>)

\* SpecificShardSelector::select: find(..).into_iter().collect()
SpecificShardSelect(shs, id) == FindFirst(shs, id)

ReplicaSelectors == {"All", "Random"}

ShardSelect(ssel, shs, d) ==
    CASE ssel.kind = "All" -> AllShardsSelect(shs)
      [] ssel.kind = "Random" -> RandomShardSelect(shs, d)
      [] ssel.kind = "Specific" -> SpecificShardSelect(shs, ssel.id)

ReplicaSelect(rsel, replicas, d) ==
    CASE rsel = "All" -> AllReplicaSelect(replicas)
      [] rsel = "Random" -> RandomReplicaSelect(replicas, d)

-----------------------------------------------------------------------------
(* Fan-out (replication.rs 92-243) *)

\* The id of the shard at position p of the cluster view, and the address of
\* its j-th replica.  A replica answers with a response naming itself.
ShardIdAt(p) == 100 + p

Addr(p, j) == 10 * p + j

Resp(addr) == addr

ShardIds == {ShardIdAt(p) : p \in 0..MaxShards}

ShardSelectors ==
    {[kind |-> "All"], [kind |-> "Random"]} \cup {[kind |-> "Specific", id |-> x] : x \in ShardIds}

\* ShardedClient::new over ReplicatedClient::new over RemoteClient::new
RECURSIVE SumTo(_, _)
SumTo(c, n) == IF n = 0 THEN 0 ELSE c[n] + SumTo(c, n - 1)

Topologies(maxClients) ==
    UNION {{[p \in 1..n |-> [id |-> ShardIdAt(p), replicas |-> [j \in 1..c[p] |-> Addr(p, j)]]] :
              c \in {x \in [1..n -> 0..MaxReplicas] : SumTo(x, n) <= maxClients}} :
           n \in 0..MaxShards}

\* Mutation of the collection loop: each Ok value is put in front of the
\* earlier ones (results.insert(0, r) for results.push(r)).
RECURSIVE CollectOkReversed(_)
CollectOkReversed(rs) ==
    IF rs = <<>> THEN <<>>
    ELSE IF Head(rs).st = "ok" THEN CollectOkReversed(Tail(rs)) \o <<Head(rs).val>>
         ELSE CollectOkReversed(Tail(rs))

\* The loop over join_all's output (114-122 and 231-239): the Ok values in the
\* order of the futures, the Err values logged and dropped.
RECURSIVE CollectOk(_)
CollectOk(rs) ==
    IF rs = <<>> THEN <<>>
    ELSE IF Head(rs).st = "ok" THEN <<Head(rs).val>> \o CollectOk(Tail(rs))
         ELSE CollectOk(Tail(rs))

\* Mutation of ReplicatedClient::send: the first per-replica error is returned
\* to the caller (r? for the match).
ReplicatedClientSendFirstErr(rs) ==
    IF \E j \in DOMAIN rs : rs[j].st = "err"
    THEN rs[CHOOSE j \in DOMAIN rs : rs[j].st = "err" /\ \A x \in 1..(j - 1) : rs[x].st # "err"]
    ELSE OkR(CollectOk(rs))

\* ReplicatedClient::send, once join_all has every RemoteClient::send result.
ReplicatedClientSend(rs) == OkR(CollectOk(rs))

\* ShardedClient::send_single: Ok((shard.id.clone(), replicas.send(..).await?))
SendSingle(id, r) == IF r.st = "ok" THEN OkR(<<id, r.val>>) ELSE r

\* Mutation of ShardedClient::send: the collection loop stops at the first
\* shard that came back without any response.
RECURSIVE CollectUntilEmpty(_)
CollectUntilEmpty(rs) ==
    IF rs = <<>> THEN <<>>
    ELSE IF Head(rs).st = "ok" /\ Head(rs).val[2] = <<>> THEN <<>>
         ELSE IF Head(rs).st = "ok" THEN <<Head(rs).val>> \o CollectUntilEmpty(Tail(rs))
              ELSE CollectUntilEmpty(Tail(rs))

ShardedClientSendStopAtEmpty(rs) == OkR(CollectUntilEmpty(rs))

\* ShardedClient::send, once join_all has every send_single result.
ShardedClientSend(rs) == OkR(CollectOk(rs))

\* Mutation of the join: the first completed future ends the wait
\* (select_all for join_all).
AnyDone(fs) == fs = <<>> \/ \E j \in DOMAIN fs : fs[j] # Pending

\* join_all(futures).await: every future has completed.
AllDone(fs) == \A j \in DOMAIN fs : fs[j] # Pending

NoPrev == [p |-> 0]

\* The replica addresses of a view, none of them contacted yet.
NoTraffic(view) ==
    [a \in UNION {Range(view[p].replicas) : p \in DOMAIN view} |-> [conn |-> 0, calls |-> 0]]

FanInitOn(views) ==
    /\ shards \in views
    /\ fpc = "idle"
    /\ call = [ssel |-> [kind |-> "All"], rsel |-> "All"]
    /\ selShards = <<>>
    /\ selReps = <<>>
    /\ futures = <<>>
    /\ shardFut = <<>>
    /\ result = Pending
    /\ outOfOrder = FALSE
    /\ prev = NoPrev
    /\ wire = NoTraffic(shards)

FanInit == FanInitOn(Topologies(MaxClients))

\* ShardedClient::send up to join_all, for given selectors: select the shards, and for each of them
\* (first poll of send_single / ReplicatedClient::send) select the replicas
\* and create one RemoteClient::send future per selected replica.
Dispatch(ssel, rsel) ==
    /\ \E sd \in (IF ssel.kind = "Random" THEN DrawsFor(Len(shards)) ELSE {<<>>}) :
         LET ss == ShardSelect(ssel, shards, sd)
         IN \E rd \in [1..Len(ss) -> IF rsel = "Random" THEN DrawsFor(MaxReplicas) ELSE {<<>>}] :
              /\ selShards' = ss
              /\ selReps' = [i \in 1..Len(ss) |->
                               ReplicaSelect(rsel, shards[ss[i]].replicas, rd[i])]
              /\ futures' = [i \in 1..Len(ss) |->
                               [j \in 1..Len(selReps'[i]) |-> Pending]]
              /\ shardFut' = [i \in 1..Len(ss) |-> Pending]
    /\ call' = [ssel |-> ssel, rsel |-> rsel]
    /\ fpc' = "joining"

Send(ssel, rsel) ==
    /\ fpc = "idle"
    /\ Dispatch(ssel, rsel)
    /\ UNCHANGED <<shards, result, outOfOrder, prev, wire, fanRest>>

EarlierPending(i, j) ==
    \/ \E j2 \in 1..(j - 1) : futures[i][j2] = Pending
    \/ \E i2 \in 1..(i - 1) : \E j2 \in DOMAIN futures[i2] : futures[i2][j2] = Pending

\* The address behind the j-th future of the i-th selected shard.
AddrOf(i, j) == shards[selShards[i]].replicas[selReps[i][j]]

\* What one run of RemoteClient::send with result r adds to the traffic
\* towards its replica: conn() once, and send_with_timeout once unless conn()
\* failed (self.conn().await? returns before the call).
WireAfter(i, j, r) ==
    [wire EXCEPT ![AddrOf(i, j)] =
        [conn |-> @.conn + 1,
         calls |-> @.calls + (IF r = ErrR("Unreachable") THEN 0 ELSE 1)]]

\* RemoteClient::send of one dispatched call completes: conn() then
\* send_with_timeout.  The replica answers, or the call fails.
RpcComplete(i, j, r) ==
    /\ fpc = "joining"
    /\ futures[i][j] = Pending
    /\ futures' = [futures EXCEPT ![i][j] = r]
    /\ wire' = WireAfter(i, j, r)
    /\ outOfOrder' = (outOfOrder \/ EarlierPending(i, j))
    /\ UNCHANGED <<shards, fpc, call, selShards, selReps, shardFut, result, prev, fanRest>>

RpcOk(i, j) == RpcComplete(i, j, OkR(Resp(AddrOf(i, j))))

\* Mutation of RemoteClient::send: a failed run is started over (a retry loop
\* around conn() and the call).
RpcFailResend(i, j, k) ==
    /\ fpc = "joining"
    /\ futures[i][j] = Pending
    /\ wire' = WireAfter(i, j, ErrR(k))
    /\ UNCHANGED <<shards, fpc, call, selShards, selReps, futures, shardFut, result, outOfOrder,
                   prev, fanRest>>

RpcFail(i, j, k) == RpcComplete(i, j, ErrR(k))

\* ReplicatedClient::send returns inside send_single, for one selected shard.
ReplicatedJoin(i) ==
    /\ fpc = "joining"
    /\ shardFut[i] = Pending
    /\ AllDone(futures[i])
    /\ shardFut' = [shardFut EXCEPT
                      ![i] = SendSingle(shards[selShards[i]].id, ReplicatedClientSend(futures[i]))]
    /\ UNCHANGED <<shards, fpc, call, selShards, selReps, futures, result, outOfOrder, prev, wire,
                   fanRest>>

\* ShardedClient::send returns.
ShardedJoin ==
    /\ fpc = "joining"
    /\ AllDone(shardFut)
    /\ result' = ShardedClientSend(shardFut)
    /\ fpc' = "returned"
    /\ UNCHANGED <<shards, call, selShards, selReps, futures, shardFut, outOfOrder, prev, wire,
                   fanRest>>

FanNextOn(errors) ==
    \/ \E ssel \in ShardSelectors, rsel \in ReplicaSelectors : Send(ssel, rsel)
    \/ \E i \in DOMAIN futures : \E j \in DOMAIN futures[i] : RpcOk(i, j)
    \/ \E i \in DOMAIN futures : \E j \in DOMAIN futures[i] : \E k \in errors : RpcFail(i, j, k)
    \/ \E i \in DOMAIN shardFut : ReplicatedJoin(i)
    \/ ShardedJoin

FanNext == FanNextOn(RpcErrors)

\* One dispatched RemoteClient::send runs to its end: conn() gives up after its
\* retries and send_with_timeout after its deadline, so none stays pending.
RpcStep ==
    \E i \in DOMAIN futures : \E j \in DOMAIN futures[i] :
        RpcOk(i, j) \/ \E k \in RpcErrors : RpcFail(i, j, k)

\* The executor polls a future that can make progress.
JoinStep == (\E i \in DOMAIN shardFut : ReplicatedJoin(i)) \/ ShardedJoin

FanIdle == FanInitOn({<<>>})

\* What the finished send did for the shard at position p of the view: the
\* replicas it selected there, which of them answered, and the entries of the
\* result tagged with that shard's id.
IndexOf(p) == CHOOSE i \in DOMAIN selShards : selShards[i] = p

EntriesOf(p) == SelectSeq(result.val, LAMBDA e : e[1] = shards[p].id)

Observed(p) ==
    [p |-> p, call |-> call,
     sel |-> selReps[IndexOf(p)],
     answers |-> [j \in DOMAIN futures[IndexOf(p)] |-> futures[IndexOf(p)][j]],
     entries |-> EntriesOf(p)]

\* The caller sends the same request again on the same ShardedClient with the
\* same selectors (send takes &self); what the first send did for shard p is
\* kept for comparison.
SendAgain(p) ==
    /\ fpc = "returned"
    /\ prev = NoPrev
    /\ p \in Range(selShards)
    /\ prev' = Observed(p)
    /\ Dispatch(call.ssel, call.rsel)
    /\ result' = Pending
    /\ outOfOrder' = FALSE
    /\ wire' = NoTraffic(shards)
    /\ UNCHANGED <<shards, fanRest>>

IsoInit == FanInitOn(Topologies(MaxIsoClients))

\* The failures the two compared sends meet: a connect failure or a call failure.
IsoErrors == {"Unreachable", "CallTimeout"}

IsoNext ==
    \/ FanNextOn(IsoErrors)
    \/ \E p \in DOMAIN shards : SendAgain(p)

-----------------------------------------------------------------------------
(* One selector applied to one slice *)

\* Slices of shards whose ids need not differ, and slices of clients.
ShardSlices ==
    UNION {{[p \in 1..n |-> [id |-> ids[p], replicas |-> <<>>]] : ids \in [1..n -> ShardIds]} :
           n \in 0..MaxLen}

ClientSlices == {[j \in 1..n |-> Addr(1, j)] : n \in 0..MaxLen}

SelInit ==
    /\ selShardsIn \in ShardSlices
    /\ selClientsIn \in ClientSlices
    /\ selOp = "none"
    /\ selArg = 0
    /\ selOut = <<>>

SelIdle ==
    /\ selShardsIn = <<>>
    /\ selClientsIn = <<>>
    /\ selOp = "none"
    /\ selArg = 0
    /\ selOut = <<>>

Applied(op, arg, out) ==
    /\ selOp = "none"
    /\ selOp' = op
    /\ selArg' = arg
    /\ selOut' = out
    /\ UNCHANGED <<selShardsIn, selClientsIn, selRest>>

ApplyRandomReplica == \E d \in DrawsFor(MaxLen) :
    Applied("RandomReplica", 0, RandomReplicaSelect(selClientsIn, d))

ApplyAllReplica == Applied("AllReplica", 0, AllReplicaSelect(selClientsIn))

ApplyAllShards == Applied("AllShards", 0, AllShardsSelect(selShardsIn))

ApplyRandomShard == \E d \in DrawsFor(MaxLen) :
    Applied("RandomShard", 0, RandomShardSelect(selShardsIn, d))

ApplySpecificShard == \E id \in ShardIds :
    Applied("Specific", id, SpecificShardSelect(selShardsIn, id))

SelNext ==
    \/ ApplyRandomReplica
    \/ ApplyAllReplica
    \/ ApplyAllShards
    \/ ApplyRandomShard
    \/ ApplySpecificShard

-----------------------------------------------------------------------------
(* One RemoteClient::send: connection establishment, then the call *)

\* RemoteClient::conn: ExponentialBackoff::from_millis(30)
BackoffBaseMs == 30

\* .with_limit(Duration::from_millis(200))
BackoffLimitMs == 200

\* Mutation of RemoteClient::conn: .take(6)
RetryTakeOneMore == 5 + 1

\* .take(5)
RetryTake == 5

\* The retry iterator RemoteClient::conn builds.
RetryStrategy == [current |-> BackoffBaseMs, left |-> RetryTake]

\* ExponentialBackoff::next under with_limit: the current delay, truncated to
\* the limit; the next one is `base` times larger.
BackoffDelay(r) == Min2(r.current, BackoffLimitMs)

BackoffAdvance(r) ==
    [current |-> Min2(r.current * BackoffBaseMs, BackoffLimitMs * BackoffBaseMs),
     left |-> r.left - 1]

\* How one connect attempt can fail: refused, or no answer within the 30 s.
ConnectFailures == {"refused", "timedout"}

ConnInit ==
    /\ cpc = "idle"
    /\ retry = RetryStrategy
    /\ attempts = <<>>
    /\ delays = <<>>
    /\ cres = Pending

\* RemoteClient::send begins: conn() builds the retry strategy and
\* create_with_timeout starts on its first attempt.
RemoteSend ==
    /\ cpc = "idle"
    /\ cpc' = "connecting"
    /\ retry' = RetryStrategy
    /\ UNCHANGED <<attempts, delays, cres, connRest>>

\* A connect attempt is accepted: the connection is established.
ConnectOk ==
    /\ cpc = "connecting"
    /\ retry.left > 0
    /\ attempts' = Append(attempts, "accepted")
    /\ retry' = BackoffAdvance(retry)
    /\ cpc' = "connected"
    /\ UNCHANGED <<delays, cres, connRest>>

\* A connect attempt fails.  With attempts left in the strategy the client
\* sleeps the backoff delay; with none left conn() fails with Unreachable and
\* RemoteClient::send returns that error (conn().await?).
ConnectFail(why) ==
    /\ cpc = "connecting"
    /\ retry.left > 0
    /\ attempts' = Append(attempts, why)
    /\ retry' = BackoffAdvance(retry)
    /\ IF retry.left > 1
       THEN /\ cpc' = "sleeping"
            /\ delays' = Append(delays, BackoffDelay(retry))
            /\ cres' = cres
       ELSE /\ cpc' = "done"
            /\ delays' = delays
            /\ cres' = ErrR("Unreachable")
    /\ UNCHANGED connRest

\* The backoff delay has passed: the next attempt starts.
Wake ==
    /\ cpc = "sleeping"
    /\ cpc' = "connecting"
    /\ UNCHANGED <<retry, attempts, delays, cres, connRest>>

\* conn.send_with_timeout(req, 60 s) returns the response.
CallOk ==
    /\ cpc = "connected"
    /\ cpc' = "done"
    /\ cres' = OkR(Resp(Addr(1, 1)))
    /\ UNCHANGED <<retry, attempts, delays, connRest>>

\* conn.send_with_timeout fails: I/O error, bad frame or the 60 s deadline.
CallFail(k) ==
    /\ cpc = "connected"
    /\ cpc' = "done"
    /\ cres' = ErrR(k)
    /\ UNCHANGED <<retry, attempts, delays, connRest>>

ConnIdle == ConnInit

ConnNext ==
    \/ RemoteSend
    \/ ConnectOk
    \/ \E why \in ConnectFailures : ConnectFail(why)
    \/ Wake
    \/ CallOk
    \/ \E k \in {"CallTimeout", "Deserialize"} : CallFail(k)

-----------------------------------------------------------------------------
(* Bloom filter (crate::bloom) and BloomMap (derived_harmonic.rs 31-63) *)

\* The bit positions an item hashes to: the hash configuration, the same for
\* every filter of one size.
BloomPositions(h) == {h % BloomBits, (3 * h + 1) % BloomBits}

\* BloomFilter::new
BloomFilterNew == [bits |-> {}]

\* BloomFilter::insert: set the item's bits.
BloomInsert(bf, h) == [bits |-> bf.bits \cup BloomPositions(h)]

\* BloomFilter::merge: bitwise OR of the bit arrays.
BloomMerge(bf, other) == [bits |-> bf.bits \cup other.bits]

\* BloomFilter::contains
BloomContains(bf, h) == BloomPositions(h) \subseteq bf.bits

\* BloomMap::new(8, ..) in DerivedCentrality::build
NumBlooms == 8

\* BloomMap::new
BloomMapNew(numBlooms) == [i \in 1..numBlooms |-> BloomFilterNew]

\* BloomMap::insert: the partition of an item, (h as usize) % self.map.len(),
\* as a position in map.
BloomMapIndex(map, h) == (h % Len(map)) + 1

\* BloomMap::insert without the locking: the filter of the item's partition
\* gets the item.
BloomMapInsert(map, h) == [map EXCEPT ![BloomMapIndex(map, h)] = BloomInsert(@, h)]

\* Mutation of BloomMap::finalize: the fold over the remaining partitions is
\* left out.
BloomMapFinalizeNoMerge(map) == map[Len(map)]

\* Mutation of BloomMap::finalize: the merge loop stops after its first round.
MergeAllFirstOnly(bf, rest) == IF rest = <<>> THEN bf ELSE BloomMerge(bf, Head(rest))

\* BloomMap::finalize: pop the last partition and merge the others into it, in
\* the order of the vector.
RECURSIVE MergeAll(_, _)
MergeAll(bf, rest) ==
    IF rest = <<>> THEN bf ELSE MergeAll(BloomMerge(bf, Head(rest)), Tail(rest))

BloomMapFinalize(map) == MergeAll(map[Len(map)], SubSeq(map, 1, Len(map) - 1))

\* Bags of items.
BagSize(b) ==
    LET RECURSIVE Sum(_)
        Sum(S) == IF S = {} THEN 0 ELSE LET x == CHOOSE x \in S : TRUE IN b[x] + Sum(S \ {x})
    IN Sum(DOMAIN b)

BagOf(xs) == [x \in 0..MaxItem |-> Cardinality({i \in DOMAIN xs : xs[i] = x})]

ItemBags == {BagOf(xs) : xs \in UNION {[1..n -> 0..MaxItem] : n \in 0..MaxInserts}}

NoFilter == [bits |-> {-1}]

Workers == 1..NumWorkers

BloomInit ==
    /\ bmItems \in ItemBags
    /\ bmPending = bmItems
    /\ bmWorker = [w \in Workers |-> [st |-> "idle", h |-> 0]]
    /\ bmMutex = [i \in 1..NumBlooms |-> 0]
    /\ bmMap = BloomMapNew(NumBlooms)
    /\ bmFinal = NoFilter
    /\ bmPoisoned = {}

BloomIdle ==
    /\ bmItems = [x \in {} |-> 0]
    /\ bmPending = [x \in {} |-> 0]
    /\ bmWorker = [w \in {} |-> 0]
    /\ bmMutex = <<>>
    /\ bmMap = <<>>
    /\ bmFinal = NoFilter
    /\ bmPoisoned = {}

\* A worker of the parallel iteration picks up an item and calls
\* BloomMap::insert: h = item.as_u64().
InsertCall(w, x) ==
    /\ bmFinal = NoFilter
    /\ bmWorker[w].st = "idle"
    /\ bmPending[x] > 0
    /\ bmPending' = [bmPending EXCEPT ![x] = @ - 1]
    /\ bmWorker' = [bmWorker EXCEPT ![w] = [st |-> "waiting", h |-> x]]
    /\ UNCHANGED <<bmItems, bmMutex, bmMap, bmFinal, bmPoisoned, bloomRest>>

\* self.map[..].lock(): the worker gets the mutex of the item's partition.
\* On a poisoned mutex lock() returns the guard inside a PoisonError, and
\* unwrap_or_else(|e| e.into_inner()) takes it out: the insert goes on.
InsertLock(w) ==
    /\ bmWorker[w].st = "waiting"
    /\ bmMutex[BloomMapIndex(bmMap, bmWorker[w].h)] = 0
    /\ bmMutex' = [bmMutex EXCEPT ![BloomMapIndex(bmMap, bmWorker[w].h)] = w]
    /\ bmWorker' = [bmWorker EXCEPT ![w].st = "locked"]
    /\ UNCHANGED <<bmItems, bmPending, bmMap, bmFinal, bmPoisoned, bloomRest>>

\* .insert(h) under the lock, and the guard is dropped.
InsertDone(w) ==
    /\ bmWorker[w].st = "locked"
    /\ bmMap' = BloomMapInsert(bmMap, bmWorker[w].h)
    /\ bmMutex' = [bmMutex EXCEPT ![BloomMapIndex(bmMap, bmWorker[w].h)] = 0]
    /\ bmWorker' = [bmWorker EXCEPT ![w] = [st |-> "idle", h |-> 0]]
    /\ UNCHANGED <<bmItems, bmPending, bmFinal, bmPoisoned, bloomRest>>

\* The parallel iteration is over (for_each returned): BloomMap::finalize.
\* Mutex::into_inner returns Ok for a mutex that is not poisoned.
Finalize ==
    /\ bmFinal = NoFilter
    /\ BagSize(bmPending) = 0
    /\ \A w \in Workers : bmWorker[w].st = "idle"
    /\ bmPoisoned = {}
    /\ bmFinal' = BloomMapFinalize(bmMap)
    /\ UNCHANGED <<bmItems, bmPending, bmWorker, bmMutex, bmMap, bmPoisoned, bloomRest>>

\* A worker panics inside .insert(h) while it holds the guard: the filter has
\* any part of the item's bits, the unwinding drops the guard, which poisons
\* the mutex and frees it, and the worker thread goes on to other inserts.
InsertPanic(w) ==
    /\ bmWorker[w].st = "locked"
    /\ \E part \in SUBSET BloomPositions(bmWorker[w].h) :
         bmMap' = [bmMap EXCEPT ![BloomMapIndex(bmMap, bmWorker[w].h)] =
                                   [bits |-> @.bits \cup part]]
    /\ bmMutex' = [bmMutex EXCEPT ![BloomMapIndex(bmMap, bmWorker[w].h)] = 0]
    /\ bmPoisoned' = bmPoisoned \cup {BloomMapIndex(bmMap, bmWorker[w].h)}
    /\ bmWorker' = [bmWorker EXCEPT ![w] = [st |-> "idle", h |-> 0]]
    /\ UNCHANGED <<bmItems, bmPending, bmFinal, bloomRest>>

\* BloomMap::finalize on a map with a poisoned partition: into_inner() returns
\* Err(PoisonError) for it and .unwrap() panics (55, 58).
FinalizePoisoned ==
    /\ bmFinal = NoFilter
    /\ BagSize(bmPending) = 0
    /\ \A w \in Workers : bmWorker[w].st = "idle"
    /\ bmPoisoned # {}
    /\ bmFinal' = Panicked("Mutex::into_inner().unwrap()")
    /\ UNCHANGED <<bmItems, bmPending, bmWorker, bmMutex, bmMap, bmPoisoned, bloomRest>>

BloomNext ==
    \/ \E w \in Workers : \E x \in DOMAIN bmPending : InsertCall(w, x)
    \/ \E w \in Workers : InsertLock(w)
    \/ \E w \in Workers : InsertDone(w)
    \/ Finalize

\* The same with worker panics.
PoisonNext ==
    \/ BloomNext
    \/ \E w \in Workers : InsertPanic(w)
    \/ FinalizePoisoned

-----------------------------------------------------------------------------
(* DerivedCentrality::build (derived_harmonic.rs 75-146) *)

Pages == 1..MaxPages

Hosts == {"hostA", "hostB"}

\* The page-level edges taken as inputs: links from a page to another page.
PossibleEdges == {e \in Pages \X Pages : e[1] # e[2]}

\* Page graphs: every page has a host, and at most MaxEdges page-level edges.
Graphs ==
    {[hostOf |-> ho, edges |-> es] :
        ho \in [Pages -> Hosts],
        es \in {e \in SUBSET PossibleEdges : Cardinality(e) <= MaxEdges}}

\* Host harmonic tables with values in [0, 1]; a host may be missing.
HarmonicTables == UNION {[D -> 0..HarmonicSteps] : D \in SUBSET Hosts}

\* page_graph.node_ids(): the nodes of the graph are the endpoints of its edges.
Nodes(g) == {e[1] : e \in g.edges} \cup {e[2] : e \in g.edges}

\* A map with one entry added or replaced (Kv::insert, BTreeMap::insert).
Put(f, k, v) == [x \in DOMAIN f \cup {k} |-> IF x = k THEN v ELSE f[x]]

EmptyMap == <<>>

\* The orders in which the parallel iteration of pass 1 can get its inserts
\* through: an insert holds the mutex of its partition while it changes the
\* filter, so the inserts take effect one after the other, in any order.
EdgeOrders(es) ==
    {o \in [1..Cardinality(es) -> es] : \A i, j \in DOMAIN o : i # j => o[i] # o[j]}

\* Pass 1: every edge.from is inserted into a BloomMap of 8 partitions, which
\* is then finalized.
RECURSIVE InsertSources(_, _)
InsertSources(map, order) ==
    IF order = <<>> THEN map
    ELSE InsertSources(BloomMapInsert(map, Head(order)[1]), Tail(order))

HasOutgoing(order) == BloomMapFinalize(InsertSources(BloomMapNew(NumBlooms), order))

\* raw_ingoing_edges(&id), each source resolved to its node and projected to
\* its host: one host per incoming edge.
RECURSIVE HostList(_, _)
HostList(g, es) ==
    IF es = {} THEN <<>>
    ELSE LET e == CHOOSE e \in es : TRUE
         IN <<g.hostOf[e[1]]>> \o HostList(g, es \ {e})

IngoingHosts(g, id) == HostList(g, {e \in g.edges : e[2] = id})

\* The order of the host nodes (Ord of Node: by name).
HostRank(h) == IF h = "hostA" THEN 1 ELSE 2

\* ingoing.sort()
RECURSIVE InsertSorted(_, _)
InsertSorted(h, hs) ==
    IF hs = <<>> THEN <<h>>
    ELSE IF HostRank(h) <= HostRank(Head(hs)) THEN <<h>> \o hs
         ELSE <<Head(hs)>> \o InsertSorted(h, Tail(hs))

RECURSIVE Sort(_)
Sort(hs) == IF hs = <<>> THEN <<>> ELSE InsertSorted(Head(hs), Sort(Tail(hs)))

\* ingoing.dedup(): of consecutive equal elements only the first is kept.
RECURSIVE Dedup(_)
Dedup(hs) ==
    IF Len(hs) <= 1 THEN hs
    ELSE IF hs[1] = hs[2] THEN Dedup(Tail(hs))
         ELSE <<hs[1]>> \o Dedup(Tail(hs))

\* Mutation of pass 2: ingoing.dedup() is left out.
SortDedupNoDedup(hs) == Sort(hs)

\* ingoing.sort(); ingoing.dedup();
SortDedup(hs) == Dedup(Sort(hs))

\* filter_map(|n| host_harmonic.get(&n.id())).sum(): hosts missing from the
\* table add nothing.
RECURSIVE SumHarmonic(_, _)
SumHarmonic(H, hs) ==
    IF hs = <<>> THEN 0
    ELSE (IF Head(hs) \in DOMAIN H THEN H[Head(hs)] ELSE 0) + SumHarmonic(H, Tail(hs))

Votes(g, H, id) == SumHarmonic(H, SortDedup(IngoingHosts(g, id)))

\* score / *norm in f64, for a score in units of 1 / HarmonicSteps^2 and a
\* norm in units of 1 / HarmonicSteps: 0.0 / 0.0 is NaN, x / 0.0 is infinite.
FDiv(score, norm) ==
    IF norm = 0
    THEN (IF score = 0 THEN [k |-> "nan"] ELSE [k |-> "inf"])
    ELSE [k |-> "num", num |-> score, den |-> norm * HarmonicSteps]

BuildInit ==
    /\ graph \in Graphs
    /\ harm \in HarmonicTables
    /\ bpc = "start"
    /\ outExists \in BOOLEAN
    /\ stagingExists = FALSE
    /\ filter = NoFilter
    /\ visited = {}
    /\ staging = EmptyMap
    /\ norms = EmptyMap
    /\ final = EmptyMap
    /\ bres = Pending
    /\ votesOf = EmptyMap
    /\ removeTried = FALSE

BuildIdle ==
    /\ graph = [hostOf |-> <<>>, edges |-> {}]
    /\ harm = EmptyMap
    /\ bpc = "start"
    /\ outExists = FALSE
    /\ stagingExists = FALSE
    /\ filter = NoFilter
    /\ visited = {}
    /\ staging = EmptyMap
    /\ norms = EmptyMap
    /\ final = EmptyMap
    /\ bres = Pending
    /\ votesOf = EmptyMap
    /\ removeTried = FALSE

\* Mutation of build: the check of the output path is left out.
BeginOverwrite ==
    /\ bpc = "start"
    /\ bpc' = "pass1"
    /\ UNCHANGED <<graph, harm, outExists, stagingExists, filter, visited, staging, norms,
                   final, bres, votesOf, removeTried, buildRest>>

\* build is called: the output path is looked at (80-82).
Begin ==
    /\ bpc = "start"
    /\ IF outExists
       THEN /\ bpc' = "failed"
            /\ bres' = ErrR("AlreadyExists")
       ELSE /\ bpc' = "pass1"
            /\ bres' = bres
    /\ UNCHANGED <<graph, harm, outExists, stagingExists, filter, visited, staging, norms,
                   final, votesOf, removeTried, buildRest>>

\* Pass 1 (84-94): the filter of the pages with an outgoing edge, and the
\* staging store is opened at output/non_normalized.
Pass1 ==
    /\ bpc = "pass1"
    /\ \E order \in EdgeOrders(graph.edges) : filter' = HasOutgoing(order)
    /\ outExists' = TRUE
    /\ stagingExists' = TRUE
    /\ bpc' = "pass2"
    /\ UNCHANGED <<graph, harm, visited, staging, norms, final, bres, votesOf, removeTried,
                   buildRest>>

\* Pass 2, one node of node_ids() (99-127).
Pass2Node(id) ==
    /\ bpc = "pass2"
    /\ id \in Nodes(graph) \ visited
    /\ visited' = visited \cup {id}
    /\ LET host == graph.hostOf[id]
           votes == Votes(graph, harm, id)
       IN IF BloomContains(filter, id) /\ host \in DOMAIN harm
          THEN /\ staging' = Put(staging, id, harm[host] * votes)
               /\ norms' = Put(norms, host,
                               Max2(IF host \in DOMAIN norms THEN norms[host] ELSE 0, votes))
               /\ votesOf' = Put(votesOf, id, votes)
          ELSE UNCHANGED <<staging, norms, votesOf>>
    /\ UNCHANGED <<graph, harm, bpc, outExists, stagingExists, filter, final, bres, removeTried,
                   buildRest>>

\* Pass 2 is over (129-133): the norms are taken out of their mutex and the
\* final store is opened at the output path.
Pass2End ==
    /\ bpc = "pass2"
    /\ visited = Nodes(graph)
    /\ bpc' = "pass3"
    /\ UNCHANGED <<graph, harm, outExists, stagingExists, filter, visited, staging, norms,
                   final, bres, votesOf, removeTried, buildRest>>

\* Pass 3, one entry of the staging store (134-139).
Pass3Entry(id) ==
    /\ bpc = "pass3"
    /\ id \in DOMAIN staging \ DOMAIN final
    /\ LET host == graph.hostOf[id]
       IN IF host \in DOMAIN norms
          THEN /\ final' = Put(final, id, FDiv(staging[id], norms[host]))
               /\ bpc' = bpc
               /\ bres' = bres
          ELSE /\ final' = final
               /\ bpc' = "panicked"
               /\ bres' = Panicked("norms.get(&node).unwrap()")
    /\ UNCHANGED <<graph, harm, outExists, stagingExists, filter, visited, staging, norms,
                   votesOf, removeTried, buildRest>>

\* Mutation of build: remove_dir_all is left out.
FinishKeepStaging ==
    /\ bpc = "pass3"
    /\ DOMAIN final = DOMAIN staging
    /\ bpc' = "done"
    /\ bres' = OkR("DerivedCentrality")
    /\ UNCHANGED <<graph, harm, outExists, stagingExists, filter, visited, staging, norms,
                   final, votesOf, removeTried, buildRest>>

\* The final store is flushed, the staging store dropped and its directory
\* removed (140-145).
Finish ==
    /\ bpc = "pass3"
    /\ DOMAIN final = DOMAIN staging
    /\ removeTried' = TRUE
    /\ stagingExists' = FALSE
    /\ bpc' = "done"
    /\ bres' = OkR("DerivedCentrality")
    /\ UNCHANGED <<graph, harm, outExists, filter, visited, staging, norms, final, votesOf,
                   buildRest>>

\* The same, but remove_dir_all fails (143): build returns the I/O error.
FinishRemoveFails ==
    /\ bpc = "pass3"
    /\ DOMAIN final = DOMAIN staging
    /\ removeTried' = TRUE
    /\ bpc' = "failed"
    /\ bres' = ErrR("Io")
    /\ UNCHANGED <<graph, harm, outExists, stagingExists, filter, visited, staging, norms,
                   final, votesOf, buildRest>>

\* RocksDbStore::open of the final store (133) or db.flush() (140) meets an
\* I/O failure.  Neither returns a Result, so the failure is a panic, which
\* unwinds build: nothing after it runs.
StorePanics ==
    /\ \/ bpc = "pass2" /\ visited = Nodes(graph)
       \/ bpc = "pass3" /\ DOMAIN final = DOMAIN staging
    /\ bpc' = "panicked"
    /\ bres' = Panicked("RocksDbStore")
    /\ UNCHANGED <<graph, harm, outExists, stagingExists, filter, visited, staging, norms,
                   final, votesOf, removeTried, buildRest>>

\* build is called again with the same arguments after the earlier call
\* returned Ok: the disk is as that call left it.
BuildAgain ==
    /\ bpc = "done"
    /\ bpc' = "start"
    /\ bres' = Pending
    /\ removeTried' = FALSE
    /\ UNCHANGED <<graph, harm, outExists, stagingExists, filter, visited, staging, norms,
                   final, votesOf, buildRest>>

BuildNext ==
    \/ Begin
    \/ Pass1
    \/ \E id \in Pages : Pass2Node(id)
    \/ Pass2End
    \/ \E id \in Pages : Pass3Entry(id)
    \/ Finish
    \/ FinishRemoveFails
    \/ StorePanics
    \/ BuildAgain

-----------------------------------------------------------------------------
(* The request loop of the search server (search_server.rs 69-104) *)

\* searcher::Request
RequestKinds == {"RetrieveWebsites", "Search", "GetWebpage"}

\* What the local searcher comes back with: its result, or its failure (an Err
\* of retrieve_websites and search_initial; get_webpage hands back an Option,
\* whose None is all it has for a page it could not get).
SearcherOutcomes == {"ok", "err"}

NoRequest == [n |-> 0, kind |-> "none"]

NoResponse == [tag |-> "none", payload |-> "none"]

\* sonic::Response
Content(v) == [tag |-> "Content", payload |-> v]

Empty == [tag |-> "Empty", payload |-> "none"]

\* Mutation of the GetWebpage arm: a page that was not got is answered like
\* the errors of the other arms.
GetWebpageArmEmptyOnNone(outcome) == IF outcome = "ok" THEN Content("Some(webpage)") ELSE Empty

\* The GetWebpage arm (98-101): whatever get_webpage returns goes into Content.
GetWebpageArm(outcome) == Content(IF outcome = "ok" THEN "Some(webpage)" ELSE "None")

\* The Search arm (86-97).
SearchArm(outcome) == IF outcome = "ok" THEN Content("result") ELSE Empty

\* The RetrieveWebsites arm (72-85).
RetrieveWebsitesArm(outcome) == IF outcome = "ok" THEN Content("websites") ELSE Empty

\* match &req.body (71-102)
ResponseFor(kind, outcome) ==
    CASE kind = "RetrieveWebsites" -> RetrieveWebsitesArm(outcome)
      [] kind = "Search" -> SearchArm(outcome)
      [] kind = "GetWebpage" -> GetWebpageArm(outcome)

\* The state at the head of the loop, after bind, the opening of the index and
\* the join of the cluster (32-67).
SrvInit ==
    /\ spc = "accepting"
    /\ sreq = NoRequest
    /\ sresp = NoResponse
    /\ accepted = 0
    /\ acceptFails = 0
    /\ slog = <<>>

SrvIdle == SrvInit

\* server.accept().await returns Ok(req) (70).
AcceptOk(kind) ==
    /\ spc = "accepting"
    /\ accepted < MaxRequests
    /\ accepted' = accepted + 1
    /\ sreq' = [n |-> accepted + 1, kind |-> kind]
    /\ spc' = "handling"
    /\ UNCHANGED <<sresp, acceptFails, slog, srvRest>>

\* server.accept().await returns Err: `if let Ok(req)` does not match and the
\* loop goes round (70, 103).
AcceptErr ==
    /\ spc = "accepting"
    /\ acceptFails < MaxAcceptFails
    /\ acceptFails' = acceptFails + 1
    /\ UNCHANGED <<spc, sreq, sresp, accepted, slog, srvRest>>

\* The arm of the request's kind calls the local searcher and builds the
\* response (71-100).
Handle(outcome) ==
    /\ spc = "handling"
    /\ sresp' = ResponseFor(sreq.kind, outcome)
    /\ slog' = Append(slog, [n |-> sreq.n, kind |-> sreq.kind, outcome |-> outcome,
                             resp |-> ResponseFor(sreq.kind, outcome), delivered |-> "pending"])
    /\ spc' = "responding"
    /\ UNCHANGED <<sreq, accepted, acceptFails, srvRest>>

\* req.respond(..).await.ok(): the response went out or the write failed; the
\* result is dropped and the loop goes round.
Responded(delivered) ==
    /\ spc = "responding"
    /\ slog' = [slog EXCEPT ![Len(slog)].delivered = IF delivered THEN "yes" ELSE "no"]
    /\ spc' = "accepting"
    /\ sreq' = NoRequest
    /\ sresp' = NoResponse
    /\ UNCHANGED <<accepted, acceptFails, srvRest>>

SrvNext ==
    \/ \E kind \in RequestKinds : AcceptOk(kind)
    \/ AcceptErr
    \/ \E outcome \in SearcherOutcomes : Handle(outcome)
    \/ \E delivered \in BOOLEAN : Responded(delivered)

-----------------------------------------------------------------------------
(* Specifications *)

FanSpecInit == FanInit /\ SelIdle /\ ConnIdle /\ BloomIdle /\ BuildIdle /\ SrvIdle

SpecFan == FanSpecInit /\ [][FanNext]_vars

SpecFanLive == FanSpecInit /\ [][FanNext]_vars /\ WF_vars(RpcStep) /\ WF_vars(JoinStep)

IsoSpecInit == IsoInit /\ SelIdle /\ ConnIdle /\ BloomIdle /\ BuildIdle /\ SrvIdle

SpecIso == IsoSpecInit /\ [][IsoNext]_vars

SelSpecInit == SelInit /\ FanIdle /\ ConnIdle /\ BloomIdle /\ BuildIdle /\ SrvIdle

SpecSel == SelSpecInit /\ [][SelNext]_vars

ConnSpecInit == ConnInit /\ FanIdle /\ SelIdle /\ BloomIdle /\ BuildIdle /\ SrvIdle

SpecConn == ConnSpecInit /\ [][ConnNext]_vars

BloomSpecInit == BloomInit /\ FanIdle /\ SelIdle /\ ConnIdle /\ BuildIdle /\ SrvIdle

SpecBloom == BloomSpecInit /\ [][BloomNext]_vars

SpecPoison == BloomSpecInit /\ [][PoisonNext]_vars

BuildSpecInit == BuildInit /\ FanIdle /\ SelIdle /\ ConnIdle /\ BloomIdle /\ SrvIdle

SpecBuild == BuildSpecInit /\ [][BuildNext]_vars

SrvSpecInit == SrvInit /\ FanIdle /\ SelIdle /\ ConnIdle /\ BloomIdle /\ BuildIdle

SpecSrv == SrvSpecInit /\ [][SrvNext]_vars

-----------------------------------------------------------------------------
(* Properties of the fan-out *)

Returned == fpc = "returned"

\* The selected shards (positions in selShards) whose every selected replica
\* failed its RPC.
UnreachableShards ==
    {i \in DOMAIN futures :
        /\ futures[i] # <<>>
        /\ \A j \in DOMAIN futures[i] : futures[i][j].st = "err"}

OkReplicas(i) == {j \in DOMAIN futures[i] : futures[i][j].st = "ok"}

AllHealthy == \A i \in DOMAIN futures : \A j \in DOMAIN futures[i] : futures[i][j].st = "ok"

\* C1 (as claimed): with n selected shards of which k are unreachable, send
\* returns Ok with exactly n - k entries, and no entry for an unreachable shard.
C1_GracefulDegradation ==
    Returned =>
        /\ result.st = "ok"
        /\ Len(result.val) = Len(selShards) - Cardinality(UnreachableShards)
        /\ \A i \in UnreachableShards :
             \A e \in DOMAIN result.val : result.val[e][1] # shards[selShards[i]].id

\* C2: when every RPC succeeds under AllShardsSelector and AllReplicaSelector,
\* send returns one entry per shard of the client, in the client's order,
\* tagged with the shard's id and holding one response per replica of it.
C2_FanOutComplete ==
    (Returned /\ call = [ssel |-> [kind |-> "All"], rsel |-> "All"] /\ AllHealthy) =>
        /\ result.st = "ok"
        /\ Len(result.val) = Len(shards)
        /\ \A p \in DOMAIN shards :
             /\ result.val[p][1] = shards[p].id
             /\ Len(result.val[p][2]) = Len(shards[p].replicas)
             /\ \A j \in DOMAIN shards[p].replicas :
                  \E x \in DOMAIN result.val[p][2] :
                     result.val[p][2][x] = Resp(shards[p].replicas[j])

C2_Witness ==
    /\ Returned
    /\ call = [ssel |-> [kind |-> "All"], rsel |-> "All"]
    /\ AllHealthy
    /\ Len(shards) >= 2
    /\ \A p \in DOMAIN shards : Len(shards[p].replicas) >= 2

\* C3: ReplicatedClient::send always returns Ok, and its vector holds exactly
\* the responses of the replicas whose RPC succeeded: none for a failed
\* replica, and the empty vector when all of them failed.
C3_ReplicatedAlwaysOk ==
    \A i \in DOMAIN shardFut :
        shardFut[i] # Pending =>
            /\ shardFut[i].st = "ok"
            /\ Len(shardFut[i].val[2]) = Cardinality(OkReplicas(i))
            /\ \A j \in OkReplicas(i) :
                 \E x \in DOMAIN shardFut[i].val[2] : shardFut[i].val[2][x] = futures[i][j].val
            /\ (OkReplicas(i) = {} => shardFut[i].val[2] = <<>>)

C3_Witness ==
    /\ Returned
    /\ \E i \in DOMAIN futures :
         /\ OkReplicas(i) # {}
         /\ \E j \in DOMAIN futures[i] : futures[i][j] = ErrR("Unreachable")
    /\ \E i \in DOMAIN futures :
         /\ \E j \in DOMAIN futures[i] : futures[i][j] = ErrR("CallTimeout")
         /\ \E j \in DOMAIN futures[i] : futures[i][j] = ErrR("Deserialize")
         /\ shardFut[i] = OkR(<<shards[selShards[i]].id, <<>> >>)

\* Where the selectors put a shard id and a response.
ShardPos(id) == CHOOSE i \in DOMAIN selShards : shards[selShards[i]].id = id

ReplicaPos(i, resp) ==
    CHOOSE j \in DOMAIN selReps[i] : Resp(shards[selShards[i]].replicas[selReps[i][j]]) = resp

\* C4: whatever the order in which the RPCs complete, the entries of the result
\* are in the order of the shard selector's output, and the responses of an
\* entry are in the order of the replica selector's output.
C4_DispatchOrder ==
    Returned =>
        /\ \A a, b \in DOMAIN result.val :
             a < b => ShardPos(result.val[a][1]) < ShardPos(result.val[b][1])
        /\ \A a \in DOMAIN result.val :
             LET i == ShardPos(result.val[a][1])
                 rs == result.val[a][2]
             IN \A x, y \in DOMAIN rs : x < y => ReplicaPos(i, rs[x]) < ReplicaPos(i, rs[y])

C4_Witness ==
    /\ Returned
    /\ outOfOrder
    /\ Len(result.val) >= 2
    /\ \E a \in DOMAIN result.val : Len(result.val[a][2]) >= 2

\* C5: two sends on the same shards with the same selectors that select the
\* same replicas of a shard and get the same answers from them return the
\* same entry for that shard, whatever the other shards and replicas did.
C5_FailureIsolation ==
    (Returned /\ prev # NoPrev) =>
        LET p == prev.p
        IN (/\ call = prev.call
            /\ p \in Range(selShards)
            /\ Observed(p).sel = prev.sel
            /\ Observed(p).answers = prev.answers)
           => EntriesOf(p) = prev.entries

\* The second send saw the same answers for the compared shard, and another
\* shard that answered in the first send failed in the second.
C5_Witness ==
    /\ Returned
    /\ prev # NoPrev
    /\ call = prev.call
    /\ prev.p \in Range(selShards)
    /\ Observed(prev.p).sel = prev.sel
    /\ Observed(prev.p).answers = prev.answers
    /\ \E j \in DOMAIN prev.answers : prev.answers[j].st = "ok"
    /\ Len(result.val) >= 2
    /\ \E i \in UnreachableShards : selShards[i] # prev.p

\* C18: send returns only when every per-replica call and every per-shard
\* call it dispatched has completed, with success or failure; and, every RPC
\* completing or failing within its budget, every send returns.
C18_JoinAll ==
    /\ [](Returned =>
            /\ \A i \in DOMAIN shardFut : shardFut[i] # Pending
            /\ \A i \in DOMAIN futures : \A j \in DOMAIN futures[i] : futures[i][j] # Pending)
    /\ [](\A i \in DOMAIN shardFut :
            shardFut[i] # Pending => \A j \in DOMAIN futures[i] : futures[i][j] # Pending)
    /\ (fpc = "joining") ~> Returned

\* The first dispatched call failed, a later one answered, and send returned
\* after both.
C18_Witness ==
    /\ Returned
    /\ Len(selShards) >= 2
    /\ futures[1] # <<>>
    /\ futures[1][1].st = "err"
    /\ \E j \in DOMAIN futures[2] : futures[2][j].st = "ok"

\* The addresses of the replicas the selectors chose.
Chosen == UNION {{AddrOf(i, j) : j \in DOMAIN selReps[i]} : i \in DOMAIN selReps}

\* C20: in one send, towards every chosen replica conn() is called once and
\* send_with_timeout at most once (once when the connection was established,
\* never after a failure), and nothing is sent to a replica that was not
\* chosen, in a chosen shard or in another one.
C20_DispatchFrame ==
    /\ \A a \in DOMAIN wire : a \notin Chosen => wire[a] = [conn |-> 0, calls |-> 0]
    /\ \A i \in DOMAIN futures : \A j \in DOMAIN futures[i] :
         LET w == wire[AddrOf(i, j)]
         IN /\ w.conn <= 1
            /\ w.calls <= w.conn
            /\ futures[i][j] = Pending => w = [conn |-> 0, calls |-> 0]
            /\ futures[i][j] # Pending => w.conn = 1
            /\ futures[i][j].st = "ok" => w.calls = 1
            /\ futures[i][j] = ErrR("Unreachable") => w.calls = 0
    /\ Returned => \A a \in Chosen : wire[a].conn = 1

\* A send under a random replica selector returned: a replica of a chosen
\* shard was left out, one call failed and was not repeated.
C20_Witness ==
    /\ Returned
    /\ call.rsel = "Random"
    /\ \E a \in DOMAIN wire : a \notin Chosen
    /\ \E a \in Chosen : wire[a] = [conn |-> 1, calls |-> 1]
    /\ \E i \in DOMAIN futures : \E j \in DOMAIN futures[i] :
         futures[i][j] = ErrR("CallTimeout") /\ wire[AddrOf(i, j)] = [conn |-> 1, calls |-> 1]

-----------------------------------------------------------------------------
(* Properties of connection establishment *)

FailedAttempts == {i \in DOMAIN attempts : attempts[i] \in ConnectFailures}

\* C6: connection establishment makes at most 5 connect attempts; after 4
\* rejections the client still goes on to a 5th attempt, and when that one is
\* accepted the connection is established; when all 5 are rejected the send
\* fails with Unreachable and no 6th attempt is made; the backoff delays start
\* at 30 ms and never exceed 200 ms.
C6_RetryBudget ==
    /\ Len(attempts) <= 5
    /\ (Len(attempts) = 4 /\ FailedAttempts = 1..4) =>
          (cpc \in {"sleeping", "connecting"} /\ cres = Pending)
    /\ (Len(attempts) = 5 /\ FailedAttempts = 1..4) =>
          (attempts[5] = "accepted" /\ cpc \in {"connected", "done"} /\ cres # ErrR("Unreachable"))
    /\ (FailedAttempts = 1..5) => (cpc = "done" /\ cres = ErrR("Unreachable"))
    /\ cres = ErrR("Unreachable") => FailedAttempts = 1..5
    /\ delays # <<>> => delays[1] = 30
    /\ \A i \in DOMAIN delays : delays[i] <= 200

C6_Witness ==
    /\ FailedAttempts = 1..5
    /\ cres = ErrR("Unreachable")
    /\ delays = <<30, 200, 200, 200>>

-----------------------------------------------------------------------------
(* Properties of the selectors *)

Matches == {i \in DOMAIN selShardsIn : selShardsIn[i].id = selArg}

\* C7: SpecificShardSelector(id).select returns at most one shard for every
\* slice, also one holding several shards with that id: exactly one shard with
\* that id when some shard has it, none otherwise.
C7_SpecificAtMostOne ==
    selOp = "Specific" =>
        /\ Len(selOut) <= 1
        /\ Matches # {} => (Len(selOut) = 1 /\ selOut[1] \in Matches)
        /\ Matches = {} => selOut = <<>>

C7_Witness ==
    /\ selOp = "Specific"
    /\ Cardinality(Matches) >= 2
    /\ Len(selOut) = 1

\* C8: RandomReplicaSelector::select and RandomShardSelector::select return
\* exactly min(1, length of the slice) elements, each an element of the slice;
\* the empty slice gives the empty output.
C8_RandomOne ==
    /\ selOp = "RandomReplica" =>
          /\ Len(selOut) = Min2(1, Len(selClientsIn))
          /\ \A x \in DOMAIN selOut : selOut[x] \in DOMAIN selClientsIn
          /\ selClientsIn = <<>> => selOut = <<>>
    /\ selOp = "RandomShard" =>
          /\ Len(selOut) = Min2(1, Len(selShardsIn))
          /\ \A x \in DOMAIN selOut : selOut[x] \in DOMAIN selShardsIn
          /\ selShardsIn = <<>> => selOut = <<>>

C8_Witness ==
    /\ selOp = "RandomShard"
    /\ Len(selShardsIn) >= 3
    /\ selOut = <<3>>

-----------------------------------------------------------------------------
(* Properties of the Bloom shard map *)

\* One Bloom filter of the same size and hash configuration into which every
\* item of the bag is inserted, one after the other.
RECURSIVE InsertSequentially(_, _)
InsertSequentially(bf, b) ==
    IF \A x \in DOMAIN b : b[x] = 0 THEN bf
    ELSE LET x == CHOOSE x \in DOMAIN b : b[x] > 0
         IN InsertSequentially(BloomInsert(bf, x), [b EXCEPT ![x] = @ - 1])

\* C9: for every bag of items and every interleaving of the concurrent inserts
\* over the partitions, finalize returns the bit array of the single filter
\* into which every item was inserted sequentially.
C9_FinalizeIsSequentialUnion ==
    bmFinal # NoFilter => bmFinal.bits = InsertSequentially(BloomFilterNew, bmItems).bits

\* Two different items of one partition and one item of another were inserted.
C9_Witness ==
    /\ bmFinal # NoFilter
    /\ \E x, y, z \in DOMAIN bmItems :
         /\ bmItems[x] > 0 /\ bmItems[y] > 0 /\ bmItems[z] > 0
         /\ x # y
         /\ BloomMapIndex(bmMap, x) = BloomMapIndex(bmMap, y)
         /\ BloomMapIndex(bmMap, x) # BloomMapIndex(bmMap, z)
         /\ bmFinal.bits # bmMap[Len(bmMap)].bits

-----------------------------------------------------------------------------
(* Properties of the derived centrality build *)

InUnitInterval(v) == v.k = "num" /\ 0 <= v.num /\ v.num <= v.den

\* C10 (as claimed): every value build writes to the final store lies in
\* [0, 1], and none comes from dividing a score by a zero norm.
C10_CentralityRange ==
    \A id \in DOMAIN final :
        /\ InUnitInterval(final[id])
        /\ norms[graph.hostOf[id]] # 0

BuiltOk == bres = OkR("DerivedCentrality")

HasOutEdge(id) == \E e \in graph.edges : e[1] = id

\* The distinct hosts of the sources of the edges into a page.
InHosts(id) == {graph.hostOf[e[1]] : e \in {x \in graph.edges : x[2] = id}}

\* C11 (as claimed): after a successful build a page is a key of the final
\* store exactly when it has an outgoing edge, its host is ranked in H, and
\* the host of at least one of its in-neighbours is ranked in H.
C11_CentralityPresence ==
    BuiltOk =>
        \A id \in Pages :
            id \in DOMAIN final <=>
                /\ HasOutEdge(id)
                /\ graph.hostOf[id] \in DOMAIN harm
                /\ \E h \in InHosts(id) : h \in DOMAIN harm

\* The sum of H over a set of ranked hosts.
RECURSIVE SumOverHosts(_, _)
SumOverHosts(H, S) ==
    IF S = {} THEN 0
    ELSE LET h == CHOOSE h \in S : TRUE IN H[h] + SumOverHosts(H, S \ {h})

\* C12: the votes pass 2 computes for a page are the sum of H(host) over the
\* set of distinct hosts of the sources of its incoming edges that H ranks:
\* several incoming edges from one host add one term, an unranked host adds 0.
C12_HostDeduplication ==
    \A id \in DOMAIN votesOf :
        votesOf[id] = SumOverHosts(harm, InHosts(id) \cap DOMAIN harm)

\* A page with two incoming edges from pages of one ranked host got one term.
C12_Witness ==
    \E id \in DOMAIN votesOf :
        /\ Cardinality({e \in graph.edges : e[2] = id}) >= 2
        /\ \E h \in DOMAIN harm : InHosts(id) = {h} /\ harm[h] > 0 /\ votesOf[id] = harm[h]

\* C13: a build called while the output path exists returns the AlreadyExists
\* error in its first step, and that step changes neither the final store, the
\* staging store, the directories, nor anything read from the graph.
C13_IdempotentRebuild ==
    [][(bpc = "start" /\ outExists) =>
          /\ bpc' = "failed"
          /\ bres' = ErrR("AlreadyExists")
          /\ final' = final
          /\ staging' = staging
          /\ outExists' = outExists
          /\ stagingExists' = stagingExists
          /\ filter' = filter
          /\ visited' = visited
          /\ norms' = norms]_vars

\* A second build to the path of a finished, non-empty store was refused.
C13_Witness ==
    /\ bres = ErrR("AlreadyExists")
    /\ final # EmptyMap
    /\ ~stagingExists

\* C14 (as claimed): when build returns Ok the staging directory is gone; when
\* build fails after the staging directory was created, the directory is still
\* there and no deletion of it was attempted.
C14_StagingLifecycle ==
    /\ BuiltOk => ~stagingExists
    /\ (bres.st = "panic" \/ bres = ErrR("Io")) => (stagingExists /\ ~removeTried)

\* C14 (amended): when build returns Ok the staging directory has been deleted,
\* after every entry of the staging store was written to the final store; when
\* build dies after the staging directory was created and before the deletion
\* step, the directory is still there and no deletion was attempted; the only
\* error build returns after creating the directory is the failure of that
\* deletion itself.
C14_StagingLifecycleAmended ==
    /\ BuiltOk => (~stagingExists /\ removeTried /\ DOMAIN final = DOMAIN staging)
    /\ bres.st = "panic" => (stagingExists /\ ~removeTried)
    /\ (bres.st = "err" /\ bres # ErrR("AlreadyExists")) => (bres = ErrR("Io") /\ removeTried)

C14_Witness ==
    /\ BuiltOk
    /\ ~stagingExists
    /\ staging # EmptyMap
    /\ DOMAIN final = DOMAIN staging

\* The largest votes among the pages of a host written in pass 2.
MaxVotesOf(h) ==
    LET vs == {votesOf[i] : i \in {x \in DOMAIN staging : graph.hostOf[x] = h}}
    IN CHOOSE v \in vs : \A w \in vs : w <= v

\* C16: for every page written to the staging store the norms map has an entry
\* for the page's host, equal to the largest votes among the pages of that host
\* written so far, in whatever order pass 2 went through the nodes; the lookup
\* of pass 3 never fails.
C16_NormsConstruction ==
    /\ bres # Panicked("norms.get(&node).unwrap()")
    /\ \A id \in DOMAIN staging :
         /\ graph.hostOf[id] \in DOMAIN norms
         /\ norms[graph.hostOf[id]] = MaxVotesOf(graph.hostOf[id])

\* Pass 2 is over and wrote two pages of one host with different votes.
C16_Witness ==
    /\ bpc = "pass3"
    /\ \E a, b \in DOMAIN staging :
         /\ graph.hostOf[a] = graph.hostOf[b]
         /\ votesOf[a] < votesOf[b]
         /\ norms[graph.hostOf[a]] = votesOf[b]

\* C17: whatever the order in which the inserts of pass 1 took effect, the
\* finalized filter contains every node that is the source of an edge, and
\* pass 2 writes every visited page that has an outgoing edge and a ranked host.
C17_NoFalseNegatives ==
    filter # NoFilter =>
        /\ \A e \in graph.edges : BloomContains(filter, e[1])
        /\ \A id \in visited :
             (HasOutEdge(id) /\ graph.hostOf[id] \in DOMAIN harm) => id \in DOMAIN staging

\* Sources of two partitions were inserted, and the filter is not the full one:
\* it answers no for some node.
C17_Witness ==
    /\ bpc = "pass3"
    /\ \E e1, e2 \in graph.edges : BloomMapIndex(BloomMapNew(NumBlooms), e1[1]) #
                                    BloomMapIndex(BloomMapNew(NumBlooms), e2[1])
    /\ \E q \in Nodes(graph) : ~BloomContains(filter, q)
    /\ \A id \in Nodes(graph) : HasOutEdge(id) => BloomContains(filter, id)

-----------------------------------------------------------------------------
(* Properties of the Bloom shard map under panics *)

\* C15 (as claimed): after a worker panicked while holding the mutex of a
\* partition, the later inserts into that partition proceed and
\* BloomMap::finalize completes without panicking.
C15_PoisonRecovery ==
    /\ \A w \in Workers :
         (bmWorker[w].st = "locked" /\ BloomMapIndex(bmMap, bmWorker[w].h) \in bmPoisoned) =>
             bmMutex[BloomMapIndex(bmMap, bmWorker[w].h)] = w
    /\ bmFinal # Panicked("Mutex::into_inner().unwrap()")

-----------------------------------------------------------------------------
(* Properties of the search server loop *)

\* The calls of req.respond made for the n-th accepted request.
ResponsesTo(n) == {x \in DOMAIN slog : slog[x].n = n}

\* The requests whose arm has run.
Handled == 1..(IF spc = "handling" THEN accepted - 1 ELSE accepted)

\* Every accepted request is answered once, and no failure ends the loop.
OneResponseEach ==
    /\ \A n \in Handled : Cardinality(ResponsesTo(n)) = 1
    /\ \A x \in DOMAIN slog : slog[x].n \in Handled
    /\ spc # "stopped"
    /\ \A x \in DOMAIN slog :
         (slog[x].delivered = "no" /\ x = Len(slog)) => spc \in {"accepting", "handling"}

\* C19 (as claimed): every accepted request gets exactly one response, Content
\* with the result when the local searcher succeeded and the Empty tag when it
\* failed, for every kind of request, GetWebpage included; a failed accept or
\* a failed respond does not end the loop.
C19_ServerLoop ==
    /\ OneResponseEach
    /\ \A x \in DOMAIN slog :
         /\ slog[x].outcome = "ok" => slog[x].resp.tag = "Content"
         /\ slog[x].outcome = "err" => slog[x].resp = Empty

\* C19 (amended): every accepted request gets exactly one response: for
\* Search and RetrieveWebsites, Content with the result when the local searcher
\* succeeded and the Empty tag when it returned an error; for GetWebpage always
\* Content with the Option get_webpage returned, None when it got no page,
\* never the Empty tag; a failed accept or a failed respond does not end the
\* loop.
C19_ServerLoopAmended ==
    /\ OneResponseEach
    /\ \A x \in DOMAIN slog :
         /\ slog[x].outcome = "ok" => slog[x].resp.tag = "Content"
         /\ (slog[x].outcome = "err" /\ slog[x].kind # "GetWebpage") => slog[x].resp = Empty
         /\ slog[x].kind = "GetWebpage" =>
              slog[x].resp = Content(IF slog[x].outcome = "ok" THEN "Some(webpage)" ELSE "None")

\* After a failed accept and a failed respond the server accepted and answered
\* further requests: a failed search with Empty, a failed page lookup with
\* Content(None).
C19_Witness ==
    /\ spc = "accepting"
    /\ acceptFails >= 1
    /\ Len(slog) >= 3
    /\ slog[1].delivered = "no"
    /\ \E x \in DOMAIN slog : slog[x].kind = "Search" /\ slog[x].resp = Empty
    /\ \E x \in DOMAIN slog : slog[x].kind = "GetWebpage" /\ slog[x].resp = Content("None")

=============================================================================
